---- MODULE Spec2Model ----
(***************************************************************************)
(* State-machine model of src/main.py: the Exporter (recursive page export *)
(* with attachments), its path sanitizer, and the Converter's markup       *)
(* rewriter.                                                                *)
(*                                                                         *)
(* A Python str is modelled as a sequence of one-character strings, so     *)
(* that `in`, replace, startswith, endswith and os.path.join are computed. *)
(* A path below out_dir is the sequence of its segments.                   *)
(***************************************************************************)
EXTENDS Integers, Sequences, FiniteSets, TLC

VARIABLES
    pc,                 \* position of the modelled run
    spaces,             \* get_all_spaces()["results"]: <<[key, homepage]>>, homepage 0 = absent
    space,              \* Exporter.__space: the selected key, 0 = None (all spaces)
    no_attach,          \* Exporter.__no_attach
    removable_parents,  \* Exporter.__removable_parents
    titlePool,          \* the titles the remote wiki gives its pages
    title,              \* page id -> title, as returned by get_page_by_id so far
    children,           \* page id -> child id list, as returned by get_child_id_list so far
    nextId,             \* number of page ids met so far (ids are 1..nextId)
    pageLimit,          \* number of pages the remote wiki holds (bound)
    attLeft,            \* attachments the remote wiki still holds (bound)
    dupLeft,            \* references to ids met before the hierarchy still holds (bound)
    seen,               \* Exporter.__seen
    stack,              \* pending __dump_page calls, innermost first
    spaceIdx,           \* position of dump's loop over the spaces
    exc,                \* the exception that ended the run, or None
    fs,                 \* the files below out_dir: path -> content
    log,                \* the logging.error records
    writes,             \* history: <<[id, path]>> of every page document written
    entered,            \* history: <<[id, dup]>> of every __dump_page entry
    attlog,             \* history: what __fetch_attachments did per attachment
    listed,             \* history: page id -> the attachment list the wiki returned
    run,                \* attachment scenario: runs of __fetch_attachments done
    attachments,        \* attachment scenario: the page's attachment list
    raw,                \* sanitizer scenario: the title given
    clean,              \* sanitizer scenario: results of __sanitize_filename
    soup,               \* rewriter scenario: the document, one slot per original element
    fired               \* rewriter scenario: history, the rules that fired per slot

vars == <<pc, spaces, space, no_attach, removable_parents, titlePool, title, children,
          pageLimit, nextId, attLeft, dupLeft, seen, stack, spaceIdx, exc, fs, log, writes,
          entered, attlog, listed, run, attachments, raw, clean, soup, fired>>

exportVars == <<pc, spaces, space, no_attach, removable_parents, titlePool, title,
                children, pageLimit, nextId, attLeft, dupLeft, seen, stack, spaceIdx, exc, fs,
                log, writes, entered, attlog, listed>>
attachVars == <<run, attachments>>
sanitizeVars == <<raw, clean>>
rewriteVars == <<soup, fired>>

None == "None"

\* ------------------------------------------------------------------ bounds
NumPages == 4
MaxChildren == 2
MaxSpaces == 2
MaxAttachments == 2
MaxDupRefs == 1
MaxTitleLen == 4
MaxElements == 2

\* ----------------------------------------------------------- str helpers
Max(a, b) == IF a >= b THEN a ELSE b

\* pat in s
Contains(s, pat) ==
    \E i \in 1..(Len(s) - Len(pat) + 1) : SubSeq(s, i, i + Len(pat) - 1) = pat

\* variant: only the first occurrence replaced
ReplaceFirst(s, old, new) ==
    IF \E i \in 1..(Len(s) - Len(old) + 1) : SubSeq(s, i, i + Len(old) - 1) = old
    THEN LET i == CHOOSE i \in 1..(Len(s) - Len(old) + 1) :
                     /\ SubSeq(s, i, i + Len(old) - 1) = old
                     /\ \A j \in 1..(i - 1) : SubSeq(s, j, j + Len(old) - 1) # old
         IN  SubSeq(s, 1, i - 1) \o new \o SubSeq(s, i + Len(old), Len(s))
    ELSE s

\* s.replace(old, new): every non-overlapping occurrence, leftmost first
RECURSIVE Replace(_, _, _)
Replace(s, old, new) ==
    IF Len(s) < Len(old) THEN s
    ELSE IF SubSeq(s, 1, Len(old)) = old
         THEN new \o Replace(SubSeq(s, Len(old) + 1, Len(s)), old, new)
         ELSE <<Head(s)>> \o Replace(Tail(s), old, new)

StartsWith(s, p) == Len(s) >= Len(p) /\ SubSeq(s, 1, Len(p)) = p
EndsWith(s, p) == Len(s) >= Len(p) /\ SubSeq(s, Len(s) - Len(p) + 1, Len(s)) = p

\* s.lstrip("/")
RECURSIVE LStripSlash(_)
LStripSlash(s) == IF s # <<>> /\ Head(s) = "/" THEN LStripSlash(Tail(s)) ELSE s

\* os.path.join(a, b) of two strings (posixpath)
OsPathJoin(a, b) ==
    IF StartsWith(b, <<"/">>) THEN b
    ELSE IF a = <<>> \/ EndsWith(a, <<"/">>) THEN a \o b
         ELSE a \o <<"/">> \o b

\* ------------------------------------------------------------- constants
ATTACHMENT_FOLDER_NAME == <<"a","t","t","a","c","h","m","e","n","t","s">>
Extension == <<".","h","t","m","l">>
IndexName == <<"i","n","d","e","x">>
Invalid == << <<".", ".">>, <<"/">> >>
Underscore == <<"_">>
ImagePrefix == <<"i","m","a","g","e","/">>
WikiPrefix == <<"/","w","i","k","i","/">>

\* ---------------------------------------------------- Exporter.__sanitize_filename
\* one round of the loop: `if invalid in document_name: replace`
SanitizeStep(document_name, invalid) ==
    IF Contains(document_name, invalid)
    THEN Replace(document_name, invalid, Underscore)
    ELSE document_name

RECURSIVE SanitizeFrom(_, _)
SanitizeFrom(document_name, i) ==
    IF i > Len(Invalid) THEN document_name
    ELSE SanitizeFrom(SanitizeStep(document_name, Invalid[i]), i + 1)

SanitizeFilename(document_name_raw) == SanitizeFrom(document_name_raw, 1)

\* the warnings the loop logs
SanitizeWarnings(document_name_raw) ==
    LET after1 == SanitizeStep(document_name_raw, Invalid[1])
    IN  (IF Contains(document_name_raw, Invalid[1]) THEN <<Invalid[1]>> ELSE <<>>)
        \o (IF Contains(after1, Invalid[2]) THEN <<Invalid[2]>> ELSE <<>>)

\* ------------------------------------------------------------ file system
\* os.path.join(out_dir, *segments): no segment holds a separator once
\* sanitized, so a path below out_dir is the sequence of its segments.
DirName(path) == SubSeq(path, 1, Len(path) - 1)
Exists(f, path) == path \in DOMAIN f
WriteFile(f, path, content) == (path :> content) @@ f

PageContent(page_id) ==
    [kind |-> "page", page |-> page_id, url |-> <<>>, complete |-> TRUE, links |-> <<>>]
AttachmentContent(att_url, complete) ==
    [kind |-> "attachment", page |-> 0, url |-> att_url, complete |-> complete,
     links |-> <<>>]

\* ------------------------------------------------ Exporter.__fetch_attachments
\* The outcome of one requests.get download:
\*   "ok"      the body is streamed into the file;
\*   "refused" requests.get or raise_for_status raises before the file is opened;
\*   "broken"  iter_content raises after the file was opened.
Outcomes == {"ok", "refused", "broken"}

\* variant: the transport error is not caught
DownloadRaises(st, att_url, att_filename, outcome) ==
    [st EXCEPT !.raised = "RequestException"]

\* st is the record [fs, log, attlog, raised] threaded through the loop; raised
\* is the exception leaving the call, or None.
\* `except requests.RequestException`: the failure is logged, nothing is raised.
DownloadFails(st, att_url, att_filename, outcome) ==
    [st EXCEPT !.fs = IF outcome = "broken"
                      THEN WriteFile(@, att_filename, AttachmentContent(att_url, FALSE))
                      ELSE @,
               !.log = Append(@, [level |-> "error", what |-> "download"])]

DownloadAttachment(st, att_url, att_filename, outcome) ==
    IF outcome = "ok"
    THEN [st EXCEPT !.fs = WriteFile(@, att_filename, AttachmentContent(att_url, TRUE))]
    ELSE DownloadFails(st, att_url, att_filename, outcome)

AddAttachmentLink(st, page_filename, att_title, att_url) ==
    [st EXCEPT !.fs = [@ EXCEPT ![page_filename].links =
                           Append(@, [href |-> att_url, text |-> att_title])]]

AttUrl(download) == WikiPrefix \o LStripSlash(download)

IsImage(mime_type) == StartsWith(mime_type, ImagePrefix)

\* variant: no check for an existing file
ImageAttachmentAlways(st, page_id, att_url, att_filename, outcome) ==
    LET got == DownloadAttachment(st, att_url, att_filename, outcome)
    IN  [got EXCEPT !.attlog = Append(@, [page |-> page_id, file |-> att_filename,
                                          did |-> "download", outcome |-> outcome])]

ImageAttachment(st, page_id, att_url, att_filename, outcome) ==
    IF Exists(st.fs, att_filename)
    THEN [st EXCEPT !.attlog = Append(@, [page |-> page_id, file |-> att_filename,
                                          did |-> "skip", outcome |-> "none"])]
    ELSE LET got == DownloadAttachment(st, att_url, att_filename, outcome)
         IN  [got EXCEPT !.attlog = Append(@, [page |-> page_id, file |-> att_filename,
                                               did |-> "download", outcome |-> outcome])]

FetchOne(st, page_id, page_filename, attachment, outcome) ==
    LET att_title == attachment.title
        att_url == AttUrl(attachment.download)
        att_sanitized_name == SanitizeFilename(att_title)
        att_filename == DirName(page_filename)
                          \o <<ATTACHMENT_FOLDER_NAME, att_sanitized_name>>
    IN  IF IsImage(attachment.mediaType)
        THEN ImageAttachment(st, page_id, att_url, att_filename, outcome)
        ELSE LET linked == AddAttachmentLink(st, page_filename, att_title, att_url)
             IN  [linked EXCEPT !.attlog =
                      Append(@, [page |-> page_id, file |-> att_filename,
                                 did |-> "link", outcome |-> "none"])]

RECURSIVE FetchFrom(_, _, _, _, _, _)
FetchFrom(st, page_id, page_filename, atts, outcomes, i) ==
    IF i > Len(atts) \/ st.raised # None THEN st
    ELSE FetchFrom(FetchOne(st, page_id, page_filename, atts[i], outcomes[i]),
                   page_id, page_filename, atts, outcomes, i + 1)

FetchAttachments(st, page_id, page_filename, atts, outcomes) ==
    FetchFrom(st, page_id, page_filename, atts, outcomes, 1)

\* ------------------------------------------------------- the remote wiki
\* Attachment records get_attachments_from_content can return.
ImagePng == <<"i","m","a","g","e","/","p","n","g">>
TextPlain == <<"t","e","x","t","/","p","l","a","i","n">>
AttPool ==
    {[title |-> <<"p">>, download |-> <<"/", "p">>, mediaType |-> ImagePng],
     [title |-> <<"/">>, download |-> <<"s">>, mediaType |-> ImagePng],
     [title |-> <<"d">>, download |-> <<"/", "d">>, mediaType |-> TextPlain]}

SeqsUpTo(S, n) == UNION {[1..k -> S] : k \in 0..n}

\* Page ids are opaque: an id not met before is given the next unused number.
\* DupRefs counts the references of a list to ids met before.
RECURSIVE DupRefs(_, _, _)
DupRefs(c, i, known) ==
    IF i > Len(c) THEN 0
    ELSE IF c[i] <= known THEN 1 + DupRefs(c, i + 1, known)
         ELSE DupRefs(c, i + 1, c[i])

RECURSIVE Canonical(_, _, _)
Canonical(c, i, known) ==
    \/ i > Len(c)
    \/ /\ c[i] <= known + 1
       /\ Canonical(c, i + 1, Max(known, c[i]))

ChildIdLists(known, dups) ==
    {c \in SeqsUpTo(1..pageLimit, MaxChildren) :
        Canonical(c, 1, known) /\ DupRefs(c, 1, known) <= dups}

RECURSIVE MaxOf(_, _)
MaxOf(c, known) == IF c = <<>> THEN known ELSE MaxOf(Tail(c), Max(known, Head(c)))

\* ------------------------------------------------------ Exporter.__dump_page
DuplicatePage == "Duplicate Page ID Found!"
NoHomepage == "No homepage found"

\* variant: the check of the visited set left out
AlreadySeenNever(src_id) == FALSE

\* `if src_id in self.__seen`
AlreadySeen(src_id) == src_id \in seen

\* variant: the document always named after the title
DocumentNameTitle(child_ids, page_title) == page_title

DocumentName(child_ids, page_title) == IF child_ids # <<>> THEN IndexName ELSE page_title

MapSanitize(parents) == [i \in 1..Len(parents) |-> SanitizeFilename(parents[i])]

RECURSIVE Filter(_, _)
Filter(s, drop) ==
    IF s = <<>> THEN <<>>
    ELSE IF Head(s) \in drop THEN Filter(Tail(s), drop)
         ELSE <<Head(s)>> \o Filter(Tail(s), drop)

\* variant: the parent just above escapes the filter
SanitizedParentsKeepLast(parents, removable) ==
    IF parents = <<>> THEN <<>>
    ELSE Filter(MapSanitize(SubSeq(parents, 1, Len(parents) - 1)), removable)
            \o <<SanitizeFilename(parents[Len(parents)])>>

\* sanitized_parents, after the removable parents are skipped
SanitizedParents(parents, removable) == Filter(MapSanitize(parents), removable)

PageLocation(parents, removable, child_ids, page_title) ==
    SanitizedParents(parents, removable)
        \o <<SanitizeFilename(DocumentName(child_ids, page_title)) \o Extension>>

\* the recursive calls `for child_id in child_ids`, in order; anc is history
\* (the ids of the callers), not program state
ChildCalls(child_ids, sanitized_parents, page_title, anc) ==
    [i \in 1..Len(child_ids) |->
        [src_id |-> child_ids[i], parents |-> sanitized_parents \o <<page_title>>,
         anc |-> anc]]

\* the attachment lists the wiki can return for a page, and the downloads' outcomes
AttLists == IF no_attach THEN {<<>>} ELSE SeqsUpTo(AttPool, attLeft)
OutcomeLists(atts) == IF no_attach THEN {<<>>} ELSE [1..Len(atts) -> Outcomes]

DumpPageBody(call, page_title, child_ids, atts, outcomes) ==
    LET page_id == call.src_id
        sanitized_parents == SanitizedParents(call.parents, removable_parents)
        page_filename == PageLocation(call.parents, removable_parents, child_ids,
                                      page_title)
        written == [fs |-> WriteFile(fs, page_filename, PageContent(page_id)),
                    log |-> log, attlog |-> attlog, raised |-> None]
        st == IF no_attach THEN written
              ELSE FetchAttachments(written, page_id, page_filename, atts, outcomes)
    IN  /\ title' = (page_id :> page_title) @@ title
        /\ children' = (page_id :> child_ids) @@ children
        /\ nextId' = MaxOf(child_ids, nextId)
        /\ attLeft' = attLeft - Len(atts)
        /\ dupLeft' = dupLeft - DupRefs(child_ids, 1, nextId)
        /\ fs' = st.fs
        /\ log' = st.log
        /\ attlog' = st.attlog
        /\ listed' = IF no_attach THEN listed ELSE (page_id :> atts) @@ listed
        /\ writes' = Append(writes, [id |-> page_id, path |-> page_filename,
                                     anc |-> call.anc])
        /\ entered' = Append(entered, [id |-> page_id, dup |-> FALSE])
        /\ IF st.raised # None
           THEN /\ pc' = "raised"
                /\ exc' = st.raised
                /\ UNCHANGED <<seen, stack>>
           ELSE /\ seen' = seen \cup {page_id}
                /\ stack' = ChildCalls(child_ids, sanitized_parents, page_title,
                                       Append(call.anc, page_id)) \o Tail(stack)
                /\ UNCHANGED <<pc, exc>>

DumpPage ==
    /\ pc = "running"
    /\ stack # <<>>
    /\ LET call == Head(stack)
       IN  IF AlreadySeen(call.src_id)
           THEN /\ pc' = "raised"
                /\ exc' = DuplicatePage
                /\ entered' = Append(entered, [id |-> call.src_id, dup |-> TRUE])
                /\ UNCHANGED <<title, children, nextId, attLeft, dupLeft, fs, log, attlog, listed,
                               writes, seen, stack>>
           ELSE \E page_title \in titlePool, child_ids \in ChildIdLists(nextId, dupLeft) :
                  \E atts \in AttLists :
                    \E outcomes \in OutcomeLists(atts) :
                      DumpPageBody(call, page_title, child_ids, atts, outcomes)
    /\ UNCHANGED <<spaces, space, no_attach, removable_parents, titlePool, pageLimit,
                   spaceIdx>>
    /\ UNCHANGED <<attachVars, sanitizeVars, rewriteVars>>

\* ------------------------------------------------- Exporter.__dump_space, dump
\* One round of `for space in ret["results"]`, with the call of __dump_space.
DumpSpace ==
    /\ pc = "running"
    /\ stack = <<>>
    /\ spaceIdx <= Len(spaces)
    /\ LET sp == spaces[spaceIdx]
       IN  IF space = 0 \/ sp.key = space
           THEN IF sp.homepage = 0
                THEN /\ log' = Append(log, [level |-> "error", what |-> "no homepage"])
                     /\ pc' = "raised"
                     /\ exc' = NoHomepage
                     /\ UNCHANGED <<stack, spaceIdx>>
                ELSE /\ stack' = <<[src_id |-> sp.homepage, parents |-> <<>>,
                                    anc |-> <<>>]>>
                     /\ spaceIdx' = spaceIdx + 1
                     /\ UNCHANGED <<log, pc, exc>>
           ELSE /\ spaceIdx' = spaceIdx + 1
                /\ UNCHANGED <<log, pc, exc, stack>>
    /\ UNCHANGED <<spaces, space, no_attach, removable_parents, titlePool, pageLimit, title,
                   children, nextId, attLeft, dupLeft, seen, fs, writes, entered, attlog,
                   listed>>
    /\ UNCHANGED <<attachVars, sanitizeVars, rewriteVars>>

\* dump: get_all_spaces, and the early return when there is none
Dump ==
    /\ pc = "start"
    /\ IF Len(spaces) = 0
       THEN /\ log' = Append(log, [level |-> "error", what |-> "no spaces"])
            /\ pc' = "done"
       ELSE /\ pc' = "running"
            /\ UNCHANGED log
    /\ UNCHANGED <<spaces, space, no_attach, removable_parents, titlePool, pageLimit, title,
                   children, nextId, attLeft, dupLeft, seen, stack, spaceIdx, exc, fs,
                   writes, entered, attlog, listed>>
    /\ UNCHANGED <<attachVars, sanitizeVars, rewriteVars>>

\* dump returns once the loop is over
DumpReturn ==
    /\ pc = "running"
    /\ stack = <<>>
    /\ spaceIdx > Len(spaces)
    /\ pc' = "done"
    /\ UNCHANGED <<spaces, space, no_attach, removable_parents, titlePool, pageLimit, title,
                   children, nextId, attLeft, dupLeft, seen, stack, spaceIdx, exc, fs, log,
                   writes, entered, attlog, listed>>
    /\ UNCHANGED <<attachVars, sanitizeVars, rewriteVars>>

\* ---------------------------------------------------------- initial states
\* The spaces get_all_spaces returns: keys 1..n; the home pages are the ids
\* 1, 2, ... in the order of the spaces that have one.
RECURSIVE HomeIds(_, _, _)
HomeIds(has, i, used) ==
    IF i > Len(has) THEN <<>>
    ELSE IF has[i]
         THEN <<[key |-> i, homepage |-> used + 1]>> \o HomeIds(has, i + 1, used + 1)
         ELSE <<[key |-> i, homepage |-> 0]>> \o HomeIds(has, i + 1, used)

SpaceLists == {HomeIds(has, 1, 0) : has \in SeqsUpTo(BOOLEAN, MaxSpaces)}

NumHomes(sps) == Cardinality({i \in 1..Len(sps) : sps[i].homepage # 0})

PlainTitles == {<<"A">>}
TitlePool == {<<"A">>, <<"B">>, <<"/">>}
RemovableChoices == SUBSET {<<"A">>, <<"/">>, <<"_">>}

IdleAttach == run = <<>> /\ attachments = <<>>
IdleSanitize == raw = <<>> /\ clean = <<>>
IdleRewrite == soup = <<>> /\ fired = <<>>

InitExport ==
    /\ pc = "start"
    /\ spaces \in SpaceLists
    /\ space \in 0..MaxSpaces
    /\ nextId = NumHomes(spaces)
    /\ title = <<>> /\ children = <<>>
    /\ seen = {} /\ stack = <<>> /\ spaceIdx = 1 /\ exc = None
    /\ fs = <<>> /\ log = <<>> /\ writes = <<>> /\ entered = <<>> /\ attlog = <<>>
    /\ listed = <<>>
    /\ IdleAttach /\ IdleSanitize /\ IdleRewrite

AllHaveHome(sps) == \A i \in 1..Len(sps) : sps[i].homepage # 0

\* the traversal: any spaces, a hierarchy with repeated references
Init ==
    /\ InitExport
    /\ no_attach = TRUE
    /\ attLeft = 0
    /\ dupLeft = MaxDupRefs
    /\ pageLimit = NumPages
    /\ nextId <= pageLimit
    /\ titlePool = PlainTitles
    /\ removable_parents = {}

\* the output paths: a forest, titles and removable parents varied
InitPaths ==
    /\ InitExport
    /\ AllHaveHome(spaces) /\ space = 0
    /\ no_attach = TRUE
    /\ attLeft = 0
    /\ dupLeft = 0
    /\ pageLimit = NumPages
    /\ nextId <= pageLimit
    /\ titlePool = TitlePool
    /\ removable_parents \in RemovableChoices

\* the attachments: a forest whose pages hold attachments
InitFetch ==
    /\ InitExport
    /\ AllHaveHome(spaces) /\ space = 0
    /\ no_attach \in BOOLEAN
    /\ attLeft = MaxAttachments
    /\ dupLeft = 0
    /\ pageLimit = MaxChildren + 1
    /\ nextId <= pageLimit
    /\ titlePool = PlainTitles
    /\ removable_parents = {}

\* ------------------------------------------- scenario: __fetch_attachments twice
\* The page document __dump_page wrote, and the image files an earlier export
\* may have left beside it.
AttachPage == <<<<"A">> \o Extension>>
EarlierFiles == {DirName(AttachPage) \o <<ATTACHMENT_FOLDER_NAME, SanitizeFilename(a.title)>> :
                    a \in {b \in AttPool : IsImage(b.mediaType)}}
LeftBy(earlier) ==
    [f \in earlier \cup {AttachPage} |->
        IF f = AttachPage THEN PageContent(1) ELSE AttachmentContent(<<>>, TRUE)]

InitAttach ==
    /\ pc = "attach"
    /\ attachments \in SeqsUpTo(AttPool, MaxAttachments)
    /\ run = <<>>
    /\ \E earlier \in SUBSET EarlierFiles : fs = LeftBy(earlier)
    /\ log = <<>> /\ attlog = <<>> /\ listed = <<>>
    /\ spaces = <<>> /\ space = 0 /\ no_attach = FALSE /\ removable_parents = {}
    /\ titlePool = PlainTitles /\ title = <<>> /\ children = <<>>
    /\ pageLimit = 1 /\ nextId = 1 /\ attLeft = 0 /\ dupLeft = 0
    /\ seen = {} /\ stack = <<>> /\ spaceIdx = 1 /\ exc = None
    /\ writes = <<>> /\ entered = <<>>
    /\ IdleSanitize /\ IdleRewrite

\* One call of __fetch_attachments(page_id, page_filename) on the same page and
\* the same attachment list; run records where each call ended.
FetchAttachmentsRun ==
    /\ pc = "attach"
    /\ Len(run) < 2
    /\ \E outcomes \in [1..Len(attachments) -> Outcomes] :
         LET st == FetchAttachments([fs |-> fs, log |-> log, attlog |-> attlog,
                                     raised |-> None],
                                    1, AttachPage, attachments, outcomes)
         IN  /\ fs' = st.fs
             /\ log' = st.log
             /\ attlog' = st.attlog
             /\ exc' = st.raised
             /\ run' = Append(run, [upto |-> Len(st.attlog), fs |-> st.fs])
    /\ UNCHANGED <<pc, attachments, spaces, space, no_attach, removable_parents,
                   titlePool, title, children, pageLimit, nextId, attLeft, dupLeft,
                   seen, stack, spaceIdx, writes, entered, listed>>
    /\ UNCHANGED <<sanitizeVars, rewriteVars>>

NextAttach == FetchAttachmentsRun
SpecAttach == InitAttach /\ [][NextAttach]_vars

\* --------------------------------------------- scenario: __sanitize_filename
Alphabet == {".", "/", "_", "a"}

IdleExport ==
    /\ spaces = <<>> /\ space = 0 /\ no_attach = TRUE /\ removable_parents = {}
    /\ titlePool = PlainTitles /\ title = <<>> /\ children = <<>>
    /\ pageLimit = 0 /\ nextId = 0 /\ attLeft = 0 /\ dupLeft = 0
    /\ seen = {} /\ stack = <<>> /\ spaceIdx = 1 /\ exc = None
    /\ fs = <<>> /\ log = <<>> /\ writes = <<>> /\ entered = <<>> /\ attlog = <<>>
    /\ listed = <<>>

InitSanitize ==
    /\ pc = "sanitize"
    /\ raw \in SeqsUpTo(Alphabet, MaxTitleLen)
    /\ clean = <<>>
    /\ IdleExport /\ IdleAttach /\ IdleRewrite

\* __sanitize_filename applied to the title, then to its own result
Sanitize ==
    /\ pc = "sanitize"
    /\ Len(clean) < 2
    /\ LET arg == IF clean = <<>> THEN raw ELSE clean[Len(clean)].name
       IN  clean' = Append(clean, [name |-> SanitizeFilename(arg),
                                   warned |-> SanitizeWarnings(arg)])
    /\ UNCHANGED <<raw, exportVars, attachVars, rewriteVars>>

NextSanitize == Sanitize
SpecSanitize == InitSanitize /\ [][NextSanitize]_vars

\* --------------------------------------- Converter.__convert_atlassian_html
\* An element of the parsed document.  has: the attribute the rule reads is
\* present (ri:filename of an ac:image's first child or of an ac:link, href of
\* an a); name: its value.
Element(tag, linktype, has, name, text) ==
    [tag |-> tag, linktype |-> linktype, has |-> has, name |-> name, text |-> text]
AcImage(has, name) == Element("ac:image", "", has, name, <<>>)
AcLink(linktype, has, name) == Element("ac:link", linktype, has, name, <<>>)
Anchor(has, href, text) == Element("a", "", has, href, text)
Img(src, alt) == Element("img", "", TRUE, src, alt)
Br == Element("br", "", FALSE, <<>>, <<>>)
TextNode(text) == Element("#text", "", FALSE, <<>>, text)

VideoExts ==
    {<<".","m","p","4">>, <<".","a","v","i">>, <<".","m","k","v">>, <<".","m","o","v">>,
     <<".","f","l","v">>, <<".","w","m","v">>, <<".","m","4","v">>,
     <<".","w","e","b","m">>}
VideoPrefix == <<"!","[","t","y","p","e",":","v","i","d","e","o","]","(">>

\* link.get("href", "")
Href(e) == IF e.has THEN e.name ELSE <<>>
IsVideoLink(href) == \E ext \in VideoExts : EndsWith(href, ext)
VideoToken(href) == VideoPrefix \o href \o <<")">>

\* variant: the attachment folder left out of the href
AttachmentTagBare(att_filename) == Anchor(TRUE, att_filename, att_filename)

\* the hyperlink the second loop puts in place of an ac:link
AttachmentTag(att_filename) ==
    Anchor(TRUE, OsPathJoin(ATTACHMENT_FOLDER_NAME, att_filename), att_filename)

\* the elements each loop finds (find_all and the loop's own condition)
Matches(rule, e) ==
    CASE rule = "image" -> e.tag = "ac:image" /\ e.has
      [] rule = "attachment" -> e.tag = "ac:link" /\ e.linktype = "attachment"
      [] rule = "video" -> e.tag = "a" /\ IsVideoLink(Href(e))

\* os.path.join(ATTACHMENT_FOLDER_NAME, None) raises TypeError
Raises(rule, e) == rule = "attachment" /\ Matches(rule, e) /\ ~e.has

\* what takes the element's place
Rewritten(rule, e) ==
    CASE rule = "image" ->
             LET srcurl == OsPathJoin(ATTACHMENT_FOLDER_NAME, e.name)
             IN  <<Img(srcurl, srcurl), Br>>
      [] rule = "attachment" -> <<AttachmentTag(e.name)>>
      [] rule = "video" -> <<TextNode(VideoToken(Href(e)))>>

RECURSIVE RewriteElems(_, _)
RewriteElems(rule, elems) ==
    IF elems = <<>> THEN <<>>
    ELSE (IF Matches(rule, Head(elems)) THEN Rewritten(rule, Head(elems))
          ELSE <<Head(elems)>>) \o RewriteElems(rule, Tail(elems))

RECURSIVE FiredOn(_, _)
FiredOn(rule, elems) ==
    IF elems = <<>> THEN <<>>
    ELSE (IF Matches(rule, Head(elems)) THEN <<rule>> ELSE <<>>)
         \o FiredOn(rule, Tail(elems))

\* One loop of the function over the document d = [soup, fired, raised], slot
\* by slot in document order; an exception ends it.
RECURSIVE LoopFrom(_, _, _)
LoopFrom(d, rule, i) ==
    IF i > Len(d.soup) \/ d.raised # None THEN d
    ELSE IF \E k \in 1..Len(d.soup[i]) : Raises(rule, d.soup[i][k])
         THEN [d EXCEPT !.raised = "TypeError"]
         ELSE LoopFrom([d EXCEPT !.soup[i] = RewriteElems(rule, @),
                                 !.fired[i].rules = @ \o FiredOn(rule, d.soup[i])],
                       rule, i + 1)

Loop(d, rule) == LoopFrom(d, rule, 1)

ConvertAtlassianHtml(d) == Loop(Loop(Loop(d, "image"), "attachment"), "video")

\* ---------------------------------------- scenario: the rewriter on a document
PdfName == <<"g",".","p","d","f">>
Mp4Name == <<"c",".","m","p","4">>
RootedName == <<"/","g">>
Filenames == {PdfName, Mp4Name, RootedName}

ElementPool ==
    {AcImage(TRUE, f) : f \in Filenames} \cup {AcImage(FALSE, <<>>)}
    \cup {AcLink(t, TRUE, f) : t \in {"attachment", "page"}, f \in Filenames}
    \cup {AcLink("attachment", FALSE, <<>>)}
    \cup {Anchor(TRUE, f, <<"t">>) : f \in Filenames} \cup {Anchor(FALSE, <<>>, <<"t">>)}

Documents == UNION {[1..k -> ElementPool] : k \in 1..MaxElements}

InitRewrite ==
    /\ pc = "convert"
    /\ \E doc \in Documents :
         /\ soup = [i \in 1..Len(doc) |-> <<doc[i]>>]
         /\ fired = [i \in 1..Len(doc) |-> [orig |-> doc[i], rules |-> <<>>]]
    /\ IdleExport /\ IdleAttach /\ IdleSanitize

\* convert's call of __convert_atlassian_html on one parsed document
Convert ==
    /\ pc = "convert"
    /\ LET d == ConvertAtlassianHtml([soup |-> soup, fired |-> fired, raised |-> None])
       IN  /\ soup' = d.soup
           /\ fired' = d.fired
           /\ exc' = d.raised
           /\ pc' = IF d.raised = None THEN "converted" ELSE "raised"
    /\ UNCHANGED <<spaces, space, no_attach, removable_parents, titlePool, title,
                   children, pageLimit, nextId, attLeft, dupLeft, seen, stack,
                   spaceIdx, fs, log, writes, entered, attlog, listed>>
    /\ UNCHANGED <<attachVars, sanitizeVars>>

NextRewrite == Convert
SpecRewrite == InitRewrite /\ [][NextRewrite]_vars

Next == Dump \/ DumpSpace \/ DumpPage \/ DumpReturn

Spec == Init /\ [][Next]_vars
SpecPaths == InitPaths /\ [][Next]_vars
SpecFetch == InitFetch /\ [][Next]_vars

\* ================================================================ claims
\* ---- readings of the histories
Range(f) == {f[i] : i \in DOMAIN f}
Kids(p) == IF p \in DOMAIN children THEN Range(children[p]) ELSE {}

RECURSIVE Closure(_, _)
Closure(S, n) ==
    IF n = 0 THEN S ELSE Closure(S \cup UNION {Kids(p) : p \in S}, n - 1)

Descendants(p) == Closure(Kids(p), nextId)
\* the hierarchy returned so far holds no cycle
Acyclic == \A p \in DOMAIN children : p \notin Descendants(p)
\* no page id is referenced twice (each page has one parent, home pages none)
Selected(i) == space = 0 \/ spaces[i].key = space
HomePages == {spaces[i].homepage : i \in {j \in DOMAIN spaces : Selected(j)}} \ {0}
Reachable == Closure(HomePages, nextId)

TimesWritten(p) == Cardinality({i \in DOMAIN writes : writes[i].id = p})
TimesProcessed(p) ==
    Cardinality({i \in DOMAIN entered : entered[i].id = p /\ ~entered[i].dup})
Written == {writes[i].id : i \in DOMAIN writes}
Pending == {stack[k].src_id : k \in DOMAIN stack}

\* every entry of __dump_page with an id already visited raised DuplicatePage at
\* once: it is the last entry, nothing was fetched or written for it
DuplicateRaises ==
    /\ \A i \in DOMAIN entered :
          entered[i].dup =>
             /\ i = Len(entered)
             /\ pc = "raised" /\ exc = DuplicatePage
             /\ TimesProcessed(entered[i].id) = 1
             /\ TimesWritten(entered[i].id) = 1
    /\ Len(writes) = Cardinality({i \in DOMAIN entered : ~entered[i].dup})
    /\ DOMAIN title = Written /\ DOMAIN children = Written

\* C1 as stated: once the run has ended, in a hierarchy without cycles every
\* page id reachable from a selected home page was processed exactly once, and
\* an entry with a visited id raises before anything is fetched or written.
\* Runs ended by a missing home page are left out of it here (they are C2's).
C1_ExactlyOnceWithoutCycles ==
    /\ (pc \in {"done", "raised"} /\ exc # NoHomepage /\ Acyclic) =>
          \A p \in Reachable :
             p \in seen /\ TimesWritten(p) = 1 /\ TimesProcessed(p) = 1
    /\ DuplicateRaises

\* C1 amended: every page id is processed at most once (written at most once,
\* added to the visited set at most once, the visited ids being exactly the
\* written ones); when dump returns normally every page id reachable from a
\* selected home page was processed exactly once; the run ends otherwise only
\* by DuplicatePage at an id referenced twice or by NoHomepage at a selected
\* space without a home page; and an entry with a visited id raises
\* DuplicatePage before anything is fetched or written for it.
C1_AtMostOnceAndAllWhenReturned ==
    /\ \A p \in 1..nextId :
          /\ TimesWritten(p) <= 1 /\ TimesProcessed(p) <= 1
          /\ p \in seen <=> TimesWritten(p) = 1
          /\ p \in seen <=> TimesProcessed(p) = 1
    /\ pc = "done" /\ spaces # <<>> => seen = Reachable
    /\ pc = "raised" =>
          \/ exc = DuplicatePage /\ entered[Len(entered)].dup
          \/ exc = NoHomepage
                /\ \E i \in DOMAIN spaces : Selected(i) /\ spaces[i].homepage = 0
    /\ DuplicateRaises

\* a run that exported three pages, one of them with two children, and then
\* entered __dump_page with a visited id
C1_Witness ==
    /\ pc = "raised" /\ exc = DuplicatePage
    /\ entered[Len(entered)].dup
    /\ Cardinality(seen) >= 3
    /\ \E p \in seen : Len(children[p]) = 2

\* ---- C2
\* C2 as stated: a selected space without a home page is logged and skipped,
\* and every other selected space is still exported: once the run has ended
\* (not by a duplicate id), the home page of every selected space that has one
\* was exported, whatever spaces without a home page are listed with it.
C2_MissingHomepageSkipsOnlyThatSpace ==
    (pc \in {"done", "raised"} /\ exc # DuplicatePage /\ spaces # <<>>) =>
        /\ HomePages \subseteq seen
        /\ \A i \in DOMAIN spaces :
              (Selected(i) /\ spaces[i].homepage = 0 /\ i < spaceIdx) =>
                  \E k \in DOMAIN log : log[k].what = "no homepage"
\* ---- C3
SanitizedTitles(ids) == {SanitizeFilename(title[p]) : p \in ids}
\* the pages written so far have pairwise different sanitized titles, none of
\* them the index name
DistinctTitles ==
    /\ \A p, q \in Written : p # q => SanitizeFilename(title[p]) # SanitizeFilename(title[q])
    /\ IndexName \notin SanitizedTitles(Written)

IndexDocument == IndexName \o Extension
Last(path) == path[Len(path)]

\* C3 as stated: with no removable parents and pairwise different titles,
\* every page below the home page
\* that has children is written as the index document inside the directory
\* named after its own sanitized title (.../B/index.html), and its children's
\* documents lie in or below that same directory.
C3_IndexInsideOwnDirectory ==
    (removable_parents = {} /\ DistinctTitles) =>
        \A i \in DOMAIN writes :
            LET w == writes[i]
            IN  (w.anc # <<>> /\ children[w.id] # <<>>) =>
                    /\ Last(w.path) = IndexDocument
                    /\ Len(w.path) >= 2
                    /\ w.path[Len(w.path) - 1] = SanitizeFilename(title[w.id])
                    /\ \A j \in DOMAIN writes :
                          (writes[j].anc # <<>> /\ Last(writes[j].anc) = w.id) =>
                              SubSeq(writes[j].path, 1, Len(w.path) - 1) = DirName(w.path)

\* ---- C4
\* C4: the last segment of every page's output path is index.html when its
\* child id list is non-empty, whatever its title, and its sanitized title
\* followed by .html when the list is empty.
C4_FilenameIsIndexOrSanitizedTitle ==
    \A i \in DOMAIN writes :
        LET w == writes[i]
        IN  IF children[w.id] # <<>>
            THEN Last(w.path) = IndexDocument
            ELSE Last(w.path) = SanitizeFilename(title[w.id]) \o Extension

\* a page with children whose title is not the index name, and a leaf whose
\* title had to be sanitized, were both written
C4_Witness ==
    \E i, j \in DOMAIN writes :
        /\ children[writes[i].id] # <<>> /\ title[writes[i].id] = <<"B">>
        /\ children[writes[j].id] = <<>> /\ title[writes[j].id] = <<"/">>
        /\ Last(writes[j].path) = <<"_">> \o Extension

\* ---- C5
DirectorySegments(path) == {path[k] : k \in 1..(Len(path) - 1)}
\* C5: no directory segment of an output path is a removable-parent title, at
\* any depth; and the removable titles change nothing of the traversal: every
\* visited page was written, each of its children is visited or pending, and
\* when dump returns every page reachable from a home page was written.
C5_RemovableParentsElidedNotSkipped ==
    /\ \A i \in DOMAIN writes :
          DirectorySegments(writes[i].path) \cap removable_parents = {}
    /\ seen = Written
    /\ \A p \in seen : Kids(p) \subseteq seen \cup Pending
    /\ pc # "raised"
    /\ pc = "done" /\ spaces # <<>> => Written = Reachable

\* a page two levels below a removable title was written, its path shorter
\* than its ancestor chain, and the run returned
C5_Witness ==
    /\ pc = "done"
    /\ \E i \in DOMAIN writes :
          LET w == writes[i]
          IN  /\ Len(w.anc) >= 2
              /\ title[w.anc[1]] \in removable_parents
              /\ Len(w.path) - 1 < Len(w.anc)

\* ---- C10
SiblingsDistinct ==
    /\ \A p \in DOMAIN children : \A a, b \in DOMAIN children[p] :
          (a # b /\ children[p][a] \in Written /\ children[p][b] \in Written) =>
              SanitizeFilename(title[children[p][a]]) # SanitizeFilename(title[children[p][b]])
    /\ \A p, q \in HomePages \cap Written :
          p # q => SanitizeFilename(title[p]) # SanitizeFilename(title[q])

\* C10 as stated: with distinct sibling titles (and distinct home page titles)
\* no two different pages are written to the same output path.
C10_NoTwoPagesShareAPath ==
    (SiblingsDistinct /\ removable_parents = {} /\ IndexName \notin SanitizedTitles(Written)) =>
        \A i, j \in DOMAIN writes :
            writes[i].id # writes[j].id => writes[i].path # writes[j].path
\* ---- C8
AttEntries(p) == {k \in DOMAIN attlog : attlog[k].page = p}
FailedDownloads ==
    {k \in DOMAIN attlog : attlog[k].did = "download" /\ attlog[k].outcome # "ok"}

\* C8: a download that fails with a transport error is logged and raises
\* nothing: every attachment listed for the page is still processed, the page
\* is marked visited, each of its children is visited or pending, and when
\* dump returns every page reachable from a home page was exported.
C8_FailedDownloadDoesNotAbort ==
    /\ pc # "raised" /\ exc = None
    /\ Cardinality({k \in DOMAIN log : log[k].what = "download"})
          = Cardinality(FailedDownloads)
    /\ \A p \in DOMAIN listed :
          p \in seen /\ Cardinality(AttEntries(p)) = Len(listed[p])
    /\ \A p \in seen : Kids(p) \subseteq seen \cup Pending
    /\ pc = "done" /\ spaces # <<>> => seen = Reachable

\* the first of two attachments of a page with children failed to download,
\* the second was processed, the children were exported and dump returned
C8_Witness ==
    /\ pc = "done"
    /\ \E k \in FailedDownloads :
          /\ k + 1 \in DOMAIN attlog
          /\ attlog[k + 1].page = attlog[k].page
          /\ children[attlog[k].page] # <<>>
          /\ Kids(attlog[k].page) \subseteq seen

\* ---- C7
ImagesListed == {a \in Range(attachments) : IsImage(a.mediaType)}
Target(a) == DirName(AttachPage) \o <<ATTACHMENT_FOLDER_NAME, SanitizeFilename(a.title)>>
\* the entries of the history for file f among lo..hi, and the downloads
Entries(f, lo, hi) ==
    {k \in lo..hi : attlog[k].file = f /\ attlog[k].did \in {"skip", "download"}}
Downloads(f, lo, hi) == {k \in Entries(f, lo, hi) : attlog[k].did = "download"}
Min(S) == CHOOSE k \in S : \A m \in S : k <= m

\* C7 as stated: two runs for the same page and the same image attachment,
\* no file being at the target path before the first, do exactly one download
\* of it in all; the second run finds the file, skips, and leaves its content
\* as it was.
C7_ExactlyOneDownloadInTwoRuns ==
    Len(run) = 2 =>
        \A a \in ImagesListed :
            LET f == Target(a)
            IN  attlog[Min(Entries(f, 1, run[1].upto))].did = "download" =>
                /\ Cardinality(Downloads(f, 1, run[2].upto)) = 1
                /\ Downloads(f, run[1].upto + 1, run[2].upto) = {}
                /\ f \in DOMAIN run[1].fs /\ f \in DOMAIN run[2].fs
                /\ run[2].fs[f] = run[1].fs[f]

\* C7 amended: if a file is at the target path after the first run, the second
\* run skips it, downloads nothing and leaves its content unchanged; in all at
\* most one download writes the file, and exactly one download is done when
\* the file was absent before and the first run's download was not refused;
\* if no file is there after the first run (every download of it was refused
\* before the file was opened), the second run requests the download again.
C7_SecondRunSkipsExistingFile ==
    Len(run) = 2 =>
        \A a \in ImagesListed :
            LET f == Target(a)
                first == Entries(f, 1, run[1].upto)
                second == Entries(f, run[1].upto + 1, run[2].upto)
            IN  /\ first # {} /\ second # {}
                /\ Cardinality({k \in Downloads(f, 1, run[2].upto) :
                                    attlog[k].outcome # "refused"}) <= 1
                /\ f \in DOMAIN run[1].fs =>
                      /\ Downloads(f, run[1].upto + 1, run[2].upto) = {}
                      /\ run[2].fs[f] = run[1].fs[f]
                /\ (attlog[Min(first)].did = "download"
                        /\ attlog[Min(first)].outcome # "refused") =>
                      Cardinality(Downloads(f, 1, run[2].upto)) = 1
                /\ f \notin DOMAIN run[1].fs =>
                      /\ \A k \in first : attlog[k].did = "download"
                                            /\ attlog[k].outcome = "refused"
                      /\ attlog[Min(second)].did = "download"

\* an image was downloaded in the first run and skipped in the second
C7_Witness ==
    /\ Len(run) = 2
    /\ \E a \in ImagesListed :
          /\ \E k \in Downloads(Target(a), 1, run[1].upto) : attlog[k].outcome = "ok"
          /\ \E k \in Entries(Target(a), run[1].upto + 1, run[2].upto) :
                attlog[k].did = "skip"

\* ---- C6
Clean(name) == ~Contains(name, Invalid[1]) /\ ~Contains(name, Invalid[2])

\* C6: the result of __sanitize_filename holds neither ".." nor "/"; a title
\* that holds neither is returned as it is; sanitizing the result again
\* returns it unchanged.
C6_SanitizedIsCleanAndIdempotent ==
    /\ \A k \in DOMAIN clean : Clean(clean[k].name)
    /\ (clean # <<>> /\ Clean(raw)) => clean[1].name = raw
    /\ Len(clean) = 2 => clean[2].name = clean[1].name

\* a title holding both markers was sanitized, then its result again
C6_Witness ==
    /\ Len(clean) = 2
    /\ Contains(raw, Invalid[1]) /\ Contains(raw, Invalid[2])
    /\ clean[1].name # raw

\* ---- C9
IsAttachmentLink(e) == e.tag = "ac:link" /\ e.linktype = "attachment"
InFolder(name) == ATTACHMENT_FOLDER_NAME \o <<"/">> \o name

\* C9 as stated: no element has two rules fire on it, and the hyperlink the
\* attachment-link rule produced stays that hyperlink for every filename
\* (taken here: every filename that does not start with a separator).
C9_NoTwoRulesOnOneElement ==
    pc = "converted" =>
        \A i \in DOMAIN fired :
            /\ Len(fired[i].rules) <= 1
            /\ (IsAttachmentLink(fired[i].orig)
                    /\ ~StartsWith(fired[i].orig.name, <<"/">>)) =>
                  soup[i] = <<Anchor(TRUE, InFolder(fired[i].orig.name),
                                     fired[i].orig.name)>>

\* C9 amended: the hyperlink the attachment-link rule produced (href
\* attachments/<filename>, or <filename> itself when it starts with "/"; text
\* <filename>) is left as it is unless its href ends in a video extension; then
\* the video-link rule fires on it too and puts the text ![type:video](href)
\* in its place.  On every other element at most one rule fires.
C9_AttachmentLinkThenVideoRule ==
    pc = "converted" =>
        \A i \in DOMAIN fired :
            LET o == fired[i].orig
                href == IF StartsWith(o.name, <<"/">>) THEN o.name ELSE InFolder(o.name)
            IN  IF IsAttachmentLink(o)
                THEN IF \E ext \in VideoExts : EndsWith(o.name, ext)
                     THEN /\ soup[i] = <<TextNode(VideoPrefix \o href \o <<")">>)>>
                          /\ fired[i].rules = <<"attachment", "video">>
                     ELSE /\ soup[i] = <<Anchor(TRUE, href, o.name)>>
                          /\ fired[i].rules = <<"attachment">>
                ELSE Len(fired[i].rules) <= 1

\* a link to a video attachment became the video text, one to a document
\* stayed a hyperlink
C9_Witness ==
    /\ pc = "converted"
    /\ \E i, j \in DOMAIN fired :
          /\ IsAttachmentLink(fired[i].orig) /\ fired[i].orig.name = Mp4Name
          /\ fired[i].rules = <<"attachment", "video">>
          /\ IsAttachmentLink(fired[j].orig) /\ fired[j].orig.name = PdfName
          /\ soup[j] = <<Anchor(TRUE, InFolder(PdfName), PdfName)>>

====
